---- MODULE Spec2Model ----
(***************************************************************************)
(* Crew Dispatch Scheduler of backend/app/services/crew_dispatch_service.py *)
(* as a state machine over the module-level state (_assignments, _crews,   *)
(* _failed_nodes, _repaired_nodes, _id_counter, _storm_mode), the wall      *)
(* clock read by datetime.now(), and the value returned by the last call.   *)
(*                                                                         *)
(* Units.  Latitude and longitude are integers in units of 0.0001 degree    *)
(* (the quantum tick() rounds crew positions to).  Distances are integer    *)
(* metres.  Time is integer seconds.  Loads are integer MW.  Every point    *)
(* of the bounded inputs lies on one meridian, where the haversine          *)
(* distance is the arc length R * |dlat|.                                   *)
(*                                                                         *)
(* Cascade Simulation Engine of backend/app/services/cascade_service.py as  *)
(* a state machine over the locals of each run_cascade invocation, the      *)
(* graph the invocations are given and the state of the process-wide        *)
(* random module.  There, loads and capacities are integers in units of     *)
(* 0.001 MW, demand multipliers are in tenths, probabilities and random     *)
(* draws are in units of 1/10000, and node ids are integers.                *)
(***************************************************************************)
EXTENDS Integers, Sequences, FiniteSets, TLC

VARIABLES
    assignments,    \* _assignments: the DispatchAssignments in insertion order
    crews,          \* _crews: the Crews in insertion order
    failed_nodes,   \* _failed_nodes: the FailedNodes in insertion order
    repaired_nodes, \* _repaired_nodes
    id_counter,     \* _id_counter
    storm_mode,     \* _storm_mode
    now,            \* the wall clock, seconds
    ret,            \* what the last call returned or raised
    sched,          \* observer: how far the ticks so far follow TickSchedule
    late,           \* observer: ticks made since the first assignment was due
    graph,          \* cascade engine: the grid graph run_cascade is given
    args,           \* cascade engine: the other arguments of run_cascade
    run,            \* cascade engine: the locals of each run_cascade invocation
    rng             \* the state of the process-wide random module

vars == <<assignments, crews, failed_nodes, repaired_nodes, id_counter,
          storm_mode, now, ret, sched, late, graph, args, run, rng>>

\* What the cascade engine reads and writes.
cvars == <<graph, args, run, rng>>

state == <<assignments, crews, failed_nodes, repaired_nodes>>

\* ---------------------------------------------------------------- bounds

MaxId == 2           \* assignment ids handed out per session
MaxClockMin == 140   \* minutes of wall clock explored by Spec and SpecSession
MaxTimelineMin == 72 \* minutes of wall clock explored by SpecTimeline
MaxRepairMin == 280  \* minutes of wall clock explored by SpecRepair
LastDispatchMin == 70 \* the last minute at which SpecRepair dispatches a crew

\* ------------------------------------------------------------- constants

EARTH_RADIUS_KM == 6371
DRIVE_SPEED_KMH == 80
STORM_SPEED_PCT == 65
SPECIALTY_EXACT == 20
SPECIALTY_PARTIAL == 10
SPECIALTY_MISMATCH == 3

STANDBY == "standby"
DISPATCHED == "dispatched"
EN_ROUTE == "en_route"
ON_SITE == "on_site"
REPAIRING == "repairing"
COMPLETE == "complete"
DEPLOYED == "deployed"

CrewStatus == {STANDBY, DISPATCHED, EN_ROUTE, ON_SITE, REPAIRING, COMPLETE, DEPLOYED}

\* Optional[T]: None is the empty sequence, a value v is <<v>>.
None == <<>>
Some(v) == <<v>>

VOLTAGE_SPECIALTY ==
    << <<200, "transmission", "line_repair">>,
       <<69, "substation", "substation">>,
       <<0, "distribution", "distribution">> >>

ADJACENT_SKILLS(s) ==
    CASE s = "line_repair" -> {"substation"}
      [] s = "substation" -> {"line_repair", "distribution"}
      [] s = "distribution" -> {"substation"}
      [] s = "generation" -> {}
      [] OTHER -> {}

REPAIR_TIME(ftype) ==
    CASE ftype = "transmission" -> 180
      [] ftype = "substation" -> 120
      [] ftype = "distribution" -> 60
      [] ftype = "generation" -> 240
      [] ftype = "unknown" -> 90
      [] OTHER -> 90

\* --------------------------------------------------------------- helpers

Abs(x) == IF x < 0 THEN -x ELSE x

Max2(a, b) == IF a > b THEN a ELSE b

Min2(a, b) == IF a < b THEN a ELSE b

\* Python's round() of n/d (d > 0, n >= 0): to nearest, ties to even.
PyRound(n, d) ==
    LET q == n \div d
        r == n % d
    IN  IF 2 * r < d THEN q
        ELSE IF 2 * r > d THEN q + 1
        ELSE IF q % 2 = 0 THEN q ELSE q + 1

\* round() of a quotient of either sign.
PyRoundSigned(n, d) == IF n < 0 THEN -PyRound(-n, d) ELSE PyRound(n, d)

\* haversine_km on one meridian (lon1 = lon2): R * |dlat| in radians, in
\* metres, with pi taken as 22/7 and dlat in units of 0.0001 degree.
HaversineM(lat1, lon1, lat2, lon2) ==
    (Abs(lat2 - lat1) * EARTH_RADIUS_KM * 22) \div (7 * 1800)

\* eta_minutes: max(1, round(distance_km / speed * 60)).
EtaMinutes(dist_m, storm) ==
    LET speed100 == DRIVE_SPEED_KMH * (IF storm THEN STORM_SPEED_PCT ELSE 100)
    IN  Max2(1, PyRound(dist_m * 6, speed100))

\* classify_failure: <<failure_type, ideal_specialty>>.
ClassifyFailure(voltage_kv, has_generator) ==
    IF has_generator THEN <<"generation", "generation">>
    ELSE IF voltage_kv >= VOLTAGE_SPECIALTY[1][1]
         THEN <<VOLTAGE_SPECIALTY[1][2], VOLTAGE_SPECIALTY[1][3]>>
    ELSE IF voltage_kv >= VOLTAGE_SPECIALTY[2][1]
         THEN <<VOLTAGE_SPECIALTY[2][2], VOLTAGE_SPECIALTY[2][3]>>
    ELSE IF voltage_kv >= VOLTAGE_SPECIALTY[3][1]
         THEN <<VOLTAGE_SPECIALTY[3][2], VOLTAGE_SPECIALTY[3][3]>>
    ELSE <<"distribution", "distribution">>

\* specialty_match_score: <<multiplier * 10, label>>.
SpecialtyMatchScore(crew_specialty, ideal_specialty) ==
    IF crew_specialty = ideal_specialty THEN <<SPECIALTY_EXACT, "exact">>
    ELSE IF ideal_specialty \in ADJACENT_SKILLS(crew_specialty)
         THEN <<SPECIALTY_PARTIAL, "partial">>
    ELSE <<SPECIALTY_MISMATCH, "mismatch">>

\* A dict is the sequence of its values in insertion order; these look a
\* value up by its key field.
CrewIdsOf(cs) == {cs[i].crew_id : i \in DOMAIN cs}

CrewAt(cs, cid) == CHOOSE i \in DOMAIN cs : cs[i].crew_id = cid

NodeIdsOf(fns) == {fns[i].id : i \in DOMAIN fns}

NodeAt(fns, nid) == CHOOSE i \in DOMAIN fns : fns[i].id = nid

\* ---------------------------------------------------------------- inputs

CrewIds == {"c1", "c2"}
NodeIds == {"n1", "n2"}

\* The roster entry of each crew as the caller supplies it (utility_service
\* static data): the declared status is whatever the roster says.
RosterCrew(c) ==
    IF c = "c1"
    THEN [crew_id |-> "c1", status |-> DEPLOYED, lat |-> 300000, lon |-> -970000,
          specialty |-> "distribution", assigned_region |-> Some("north"),
          eta_minutes |-> Some(15)]
    ELSE [crew_id |-> "c2", status |-> STANDBY, lat |-> 300400, lon |-> -970000,
          specialty |-> "line_repair", assigned_region |-> None,
          eta_minutes |-> None]

\* Rosters handed to load_crews: lists of crews.
Rosters == {<<"c1">>, <<"c1", "c2">>}

\* A new_failures entry of a cascade step.
Failure(id, load) ==
    [id |-> id, lat |-> (IF id = "n1" THEN 300800 ELSE 300200), lon |-> -970000,
     load_mw |-> load, capacity_mw |-> 100]

\* Cascade results handed to load_failed_nodes: the steps' new_failures.
CascadeResults ==
    { << <<Failure("n1", 600)>> >>,
      << <<Failure("n1", 600)>>, <<Failure("n2", 300), Failure("n1", 900)>> >> }

\* graph_nodes handed to load_failed_nodes: node attributes by id.
GraphNodes ==
    [n \in NodeIds |->
        [voltage_kv |-> (IF n = "n1" THEN 12 ELSE 138), capacity_mw |-> 100,
         base_load_mw |-> 80, weather_zone |-> "north"]]

\* ------------------------------------------------------------ operations

\* ret: what the last call returned, or that it raised ValueError.  It holds
\* the results of dispatch_crew (the assignment, by its id) and dispatch_all
\* (the confirmed assignments, by their ids).  reset and load_crews return
\* None; the results of load_failed_nodes, recommend_dispatch, tick and
\* get_status are functions of the state after the call (failed_nodes,
\* RecommendOn, the stored assignments and crews) and are not copied into ret.
NoRet == [op |-> "none", raised |-> FALSE, val |-> <<>>]

Returned(op, val) == [op |-> op, raised |-> FALSE, val |-> val]

Raised(op) == [op |-> op, raised |-> TRUE, val |-> <<>>]

\* The scheduler's specifications make no run_cascade call: no graph has
\* been handed over and no invocation exists.
NoCascade ==
    /\ graph = None
    /\ args = None
    /\ run = <<>>
    /\ rng = 0

Init ==
    /\ assignments = <<>>
    /\ crews = <<>>
    /\ failed_nodes = <<>>
    /\ repaired_nodes = {}
    /\ id_counter = 0
    /\ storm_mode = TRUE
    /\ now = 0
    /\ ret = NoRet
    /\ sched = 0
    /\ late = 0
    /\ NoCascade

\* reset without `_repaired_nodes.clear()`.
ResetKeepsRepaired(storm) ==
    /\ assignments' = <<>>
    /\ crews' = <<>>
    /\ failed_nodes' = <<>>
    /\ id_counter' = 0
    /\ storm_mode' = storm
    /\ ret' = NoRet
    /\ UNCHANGED <<repaired_nodes, now, sched, late, cvars>>

\* reset(storm)
Reset(storm) ==
    /\ assignments' = <<>>
    /\ crews' = <<>>
    /\ failed_nodes' = <<>>
    /\ repaired_nodes' = {}
    /\ id_counter' = 0
    /\ storm_mode' = storm
    /\ ret' = NoRet
    /\ UNCHANGED <<now, sched, late, cvars>>

\* The roster entry stored with the status it declares.
LoadedCrewAsDeclared(c) ==
    [c EXCEPT !.assigned_region = None, !.eta_minutes = None]

\* The Crew load_crews stores for a roster entry.
LoadedCrew(c) ==
    [c EXCEPT !.status = STANDBY, !.assigned_region = None, !.eta_minutes = None]

\* load_crews(crews)
LoadCrews(roster) ==
    /\ crews' = [i \in DOMAIN roster |-> LoadedCrew(RosterCrew(roster[i]))]
    /\ ret' = NoRet
    /\ UNCHANGED <<assignments, failed_nodes, repaired_nodes, id_counter,
                   storm_mode, now, sched, late, cvars>>

\* The FailedNode load_failed_nodes builds for a new_failures entry.
MakeFailedNode(nf, graph_nodes) ==
    LET known == nf.id \in DOMAIN graph_nodes
        voltage_kv == IF known THEN graph_nodes[nf.id].voltage_kv ELSE 0
        has_gen == /\ known
                   /\ graph_nodes[nf.id].capacity_mw > graph_nodes[nf.id].base_load_mw * 2
                   /\ graph_nodes[nf.id].capacity_mw > 200
    IN  [id |-> nf.id, lat |-> nf.lat, lon |-> nf.lon, load_mw |-> nf.load_mw,
         capacity_mw |-> nf.capacity_mw, voltage_kv |-> voltage_kv,
         weather_zone |-> (IF known THEN graph_nodes[nf.id].weather_zone ELSE ""),
         failure_type |-> ClassifyFailure(voltage_kv, has_gen)[1]]

\* The inner loop of load_failed_nodes over one step's new_failures.
RECURSIVE LoadStep(_, _, _)
LoadStep(nfs, graph_nodes, acc) ==
    IF nfs = <<>> THEN acc
    ELSE LoadStep(Tail(nfs), graph_nodes,
                  IF Head(nfs).id \in NodeIdsOf(acc) THEN acc
                  ELSE Append(acc, MakeFailedNode(Head(nfs), graph_nodes)))

\* The outer loop of load_failed_nodes over the steps.
RECURSIVE LoadSteps(_, _, _)
LoadSteps(steps, graph_nodes, acc) ==
    IF steps = <<>> THEN acc
    ELSE LoadSteps(Tail(steps), graph_nodes, LoadStep(Head(steps), graph_nodes, acc))

\* load_failed_nodes(cascade_result, graph_nodes)
LoadFailedNodes(steps, graph_nodes) ==
    /\ failed_nodes' = LoadSteps(steps, graph_nodes, <<>>)
    /\ ret' = NoRet
    /\ UNCHANGED <<assignments, crews, repaired_nodes, id_counter, storm_mode,
                   now, sched, late, cvars>>

\* get_available_crews: the crews recommend_dispatch may pick from.
GetAvailableCrews(cs) ==
    SelectSeq(cs, LAMBDA c : c.status \in {STANDBY, COMPLETE})

\* get_unassigned_failed_nodes
GetUnassignedFailedNodes(as, fns, rep) ==
    LET assigned_targets ==
            {as[i].target_node_id : i \in {j \in DOMAIN as : as[j].status # COMPLETE}}
    IN  SelectSeq(fns, LAMBDA fn : fn.id \notin assigned_targets /\ fn.id \notin rep)

\* Mutant: the status check lets a crew of any status through.
CrewDispatchableAny(status) == status \in CrewStatus

\* The status check of dispatch_crew (line 309).
CrewDispatchable(status) == status \in {STANDBY, COMPLETE, DEPLOYED}

\* dispatch_crew raises ValueError unless this holds (lines 306-314).
DispatchAccepted(cs, fns, cid, nid) ==
    /\ cid \in CrewIdsOf(cs)
    /\ CrewDispatchable(cs[CrewAt(cs, cid)].status)
    /\ nid \in NodeIdsOf(fns)

\* The DispatchAssignment dispatch_crew builds (lines 316-339).
ConfirmedAssignment(crew, node, id, storm, t) ==
    LET dist == HaversineM(crew.lat, crew.lon, node.lat, node.lon)
        ideal == ClassifyFailure(node.voltage_kv, node.failure_type = "generation")[2]
        match == SpecialtyMatchScore(crew.specialty, ideal)
    IN  [assignment_id |-> id, crew_id |-> crew.crew_id, target_node_id |-> node.id,
         target_lat |-> node.lat, target_lon |-> node.lon,
         distance_m |-> PyRound(dist, 100) * 100,
         eta_minutes |-> EtaMinutes(dist, storm),
         specialty_match |-> match[2], match_score |-> match[1] * 10,
         failure_type |-> node.failure_type, status |-> EN_ROUTE,
         repair_minutes |-> REPAIR_TIME(node.failure_type),
         dispatched_at |-> Some(t), arrived_at |-> None, completed_at |-> None]

\* The crew after dispatch_crew's update (lines 342-344).
DispatchedCrew(crew, a) ==
    [crew EXCEPT !.status = EN_ROUTE, !.assigned_region = Some(a.target_node_id),
                 !.eta_minutes = Some(a.eta_minutes)]

\* Mutant: the crew is updated before the target node is validated, so a
\* call that raises for an unknown node has already changed the crew.
DispatchCrewOnEager(as, cs, idc, fns, storm, t, cid, nid) ==
    IF cid \notin CrewIdsOf(cs) \/ ~CrewDispatchable(cs[CrewAt(cs, cid)].status)
    THEN [raised |-> TRUE, as |-> as, cs |-> cs, idc |-> idc]
    ELSE IF nid \notin NodeIdsOf(fns)
    THEN [raised |-> TRUE, as |-> as,
          cs |-> [cs EXCEPT ![CrewAt(cs, cid)].status = EN_ROUTE,
                            ![CrewAt(cs, cid)].assigned_region = Some(nid)],
          idc |-> idc]
    ELSE LET ci == CrewAt(cs, cid)
             a == ConfirmedAssignment(cs[ci], fns[NodeAt(fns, nid)], idc + 1, storm, t)
         IN  [raised |-> FALSE, as |-> Append(as, a),
              cs |-> [cs EXCEPT ![ci] = DispatchedCrew(cs[ci], a)], idc |-> idc + 1]

\* One call of dispatch_crew on the session <<assignments, crews, id_counter>>:
\* the session after it and whether it raised.
DispatchCrewOn(as, cs, idc, fns, storm, t, cid, nid) ==
    IF ~DispatchAccepted(cs, fns, cid, nid)
    THEN [raised |-> TRUE, as |-> as, cs |-> cs, idc |-> idc]
    ELSE LET ci == CrewAt(cs, cid)
             a == ConfirmedAssignment(cs[ci], fns[NodeAt(fns, nid)], idc + 1, storm, t)
         IN  [raised |-> FALSE, as |-> Append(as, a),
              cs |-> [cs EXCEPT ![ci] = DispatchedCrew(cs[ci], a)], idc |-> idc + 1]

\* dispatch_crew(crew_id, target_node_id)
DispatchCrew(cid, nid) ==
    LET r == DispatchCrewOn(assignments, crews, id_counter, failed_nodes,
                            storm_mode, now, cid, nid)
    IN  /\ r.idc <= MaxId
        /\ assignments' = r.as
        /\ crews' = r.cs
        /\ id_counter' = r.idc
        /\ ret' = IF r.raised THEN Raised("dispatch_crew")
                  ELSE Returned("dispatch_crew", <<r.as[Len(r.as)].assignment_id>>)
        /\ UNCHANGED <<failed_nodes, repaired_nodes, storm_mode, now, sched, late, cvars>>

\* Mutant: the loop of dispatch_all without the try/except, so the first
\* ValueError ends the batch and reaches the caller.
RECURSIVE DispatchAllLoopAbort(_, _, _, _, _, _, _, _)
DispatchAllLoopAbort(pairs, as, cs, idc, fns, storm, t, confirmed) ==
    IF pairs = <<>>
    THEN [raised |-> FALSE, as |-> as, cs |-> cs, idc |-> idc, confirmed |-> confirmed]
    ELSE LET r == DispatchCrewOn(as, cs, idc, fns, storm, t, Head(pairs)[1], Head(pairs)[2])
         IN  IF r.raised
             THEN [raised |-> TRUE, as |-> as, cs |-> cs, idc |-> idc, confirmed |-> confirmed]
             ELSE DispatchAllLoopAbort(Tail(pairs), r.as, r.cs, r.idc, fns, storm, t,
                                       Append(confirmed, r.as[Len(r.as)].assignment_id))

DispatchAllOnAbort(pairs, as, cs, idc, fns, storm, t) ==
    DispatchAllLoopAbort(pairs, as, cs, idc, fns, storm, t, <<>>)

\* The loop of dispatch_all over the recommended pairings (lines 353-358):
\* ValueError is caught and the pairing skipped.
RECURSIVE DispatchAllLoop(_, _, _, _, _, _, _, _)
DispatchAllLoop(pairs, as, cs, idc, fns, storm, t, confirmed) ==
    IF pairs = <<>>
    THEN [raised |-> FALSE, as |-> as, cs |-> cs, idc |-> idc, confirmed |-> confirmed]
    ELSE LET r == DispatchCrewOn(as, cs, idc, fns, storm, t, Head(pairs)[1], Head(pairs)[2])
         IN  DispatchAllLoop(Tail(pairs), r.as, r.cs, r.idc, fns, storm, t,
                             IF r.raised THEN confirmed
                             ELSE Append(confirmed, r.as[Len(r.as)].assignment_id))

\* dispatch_all on the session <<assignments, crews, id_counter>>: the
\* session after it, the confirmed assignments' ids, and whether it raised.
DispatchAllOn(pairs, as, cs, idc, fns, storm, t) ==
    DispatchAllLoop(pairs, as, cs, idc, fns, storm, t, <<>>)

\* Recommendations handed to dispatch_all, each the (crew_id,
\* target_node_id) of its assignments, which is all dispatch_all reads: the
\* empty one and every matching of all crews to nodes, as recommend_dispatch
\* returned it at some earlier moment.
Pairings ==
    {p \in UNION {[1..n -> CrewIds \X NodeIds] : n \in {0, Cardinality(CrewIds)}} :
        \A i, j \in DOMAIN p : i # j => p[i][1] # p[j][1] /\ p[i][2] # p[j][2]}

\* dispatch_all(recommendation)
DispatchAll(pairs) ==
    LET r == DispatchAllOn(pairs, assignments, crews, id_counter, failed_nodes,
                           storm_mode, now)
    IN  /\ r.idc <= MaxId
        /\ assignments' = r.as
        /\ crews' = r.cs
        /\ id_counter' = r.idc
        /\ ret' = IF r.raised THEN Raised("dispatch_all")
                  ELSE Returned("dispatch_all", r.confirmed)
        /\ UNCHANGED <<failed_nodes, repaired_nodes, storm_mode, now, sched, late, cvars>>

\* The position tick() gives a crew en route (lines 396-401): from `at`
\* towards `target` by progress = elapsed / max(eta, 1), clamped to [0, 1],
\* rounded to 4 decimals.
Interpolate(at, target, elapsed_s, eta) ==
    LET den == 60 * Max2(eta, 1)
        num == Max2(0, Min2(den, elapsed_s))
    IN  at + PyRoundSigned((target - at) * num, den)

\* Mutant: the branches of tick()'s loop as successive `if`s instead of an
\* if/elif chain, so an assignment falls through several states in one tick.
TickOneFallthrough(a, crew, t) ==
    LET arrives == /\ a.status \in {DISPATCHED, EN_ROUTE}
                   /\ a.dispatched_at # None
                   /\ a.eta_minutes - ((t - a.dispatched_at[1]) \div 60) <= 0
        arrived_at == IF arrives THEN Some(t) ELSE a.arrived_at
        onsite == arrives \/ a.status = ON_SITE
        repairing == onsite \/ a.status = REPAIRING
        done == /\ repairing
                /\ arrived_at # None
                /\ t - arrived_at[1] >= a.repair_minutes * 60
        status == IF done THEN COMPLETE ELSE IF repairing THEN REPAIRING ELSE a.status
    IN  [a |-> [a EXCEPT !.status = status, !.arrived_at = arrived_at,
                         !.completed_at = IF done THEN Some(t) ELSE a.completed_at],
         crew |-> [crew EXCEPT !.status = IF repairing THEN status ELSE crew.status,
                               !.lat = IF arrives THEN a.target_lat ELSE crew.lat,
                               !.lon = IF arrives THEN a.target_lon ELSE crew.lon],
         repaired |-> done]

\* Mutant: a crew en route arrives only once more than the ETA has elapsed.
TickOneLateArrival(a, crew, t) ==
    IF a.status \in {DISPATCHED, EN_ROUTE}
    THEN IF a.dispatched_at # None /\ (t - a.dispatched_at[1]) \div 60 > a.eta_minutes
         THEN [a |-> [a EXCEPT !.status = ON_SITE, !.arrived_at = Some(t)],
               crew |-> [crew EXCEPT !.status = ON_SITE, !.eta_minutes = Some(0),
                                     !.lat = a.target_lat, !.lon = a.target_lon],
               repaired |-> FALSE]
         ELSE [a |-> a, crew |-> crew, repaired |-> FALSE]
    ELSE IF a.status = ON_SITE
    THEN [a |-> [a EXCEPT !.status = REPAIRING],
          crew |-> [crew EXCEPT !.status = REPAIRING], repaired |-> FALSE]
    ELSE IF a.status = REPAIRING /\ a.arrived_at # None
            /\ t - a.arrived_at[1] >= a.repair_minutes * 60
    THEN [a |-> [a EXCEPT !.status = COMPLETE, !.completed_at = Some(t)],
          crew |-> [crew EXCEPT !.status = COMPLETE], repaired |-> TRUE]
    ELSE [a |-> a, crew |-> crew, repaired |-> FALSE]

\* Mutant: the repair is completed without `_repaired_nodes.add`.
TickOneForgetsRepaired(a, crew, t) ==
    IF a.status \in {DISPATCHED, EN_ROUTE}
    THEN IF a.dispatched_at = None
         THEN [a |-> a, crew |-> crew, repaired |-> FALSE]
         ELSE LET elapsed_s == t - a.dispatched_at[1]
                  remaining == Max2(0, a.eta_minutes - (elapsed_s \div 60))
              IN  IF remaining <= 0
                  THEN [a |-> [a EXCEPT !.status = ON_SITE, !.arrived_at = Some(t)],
                        crew |-> [crew EXCEPT !.status = ON_SITE, !.eta_minutes = Some(0),
                                              !.lat = a.target_lat, !.lon = a.target_lon],
                        repaired |-> FALSE]
                  ELSE [a |-> a,
                        crew |-> [crew EXCEPT
                                    !.eta_minutes = Some(remaining),
                                    !.lat = Interpolate(crew.lat, a.target_lat,
                                                        elapsed_s, a.eta_minutes),
                                    !.lon = Interpolate(crew.lon, a.target_lon,
                                                        elapsed_s, a.eta_minutes)],
                        repaired |-> FALSE]
    ELSE IF a.status = ON_SITE
    THEN [a |-> [a EXCEPT !.status = REPAIRING],
          crew |-> [crew EXCEPT !.status = REPAIRING], repaired |-> FALSE]
    ELSE IF a.status = REPAIRING /\ a.arrived_at # None
            /\ t - a.arrived_at[1] >= a.repair_minutes * 60
    THEN [a |-> [a EXCEPT !.status = COMPLETE, !.completed_at = Some(t)],
          crew |-> [crew EXCEPT !.status = COMPLETE], repaired |-> FALSE]
    ELSE [a |-> a, crew |-> crew, repaired |-> FALSE]

\* The body of tick()'s loop for one assignment and its crew (lines
\* 379-415): the assignment and the crew after it, and whether the target
\* was added to _repaired_nodes.
TickOne(a, crew, t) ==
    IF a.status \in {DISPATCHED, EN_ROUTE}
    THEN IF a.dispatched_at = None
         THEN [a |-> a, crew |-> crew, repaired |-> FALSE]
         ELSE LET elapsed_s == t - a.dispatched_at[1]
                  remaining == Max2(0, a.eta_minutes - (elapsed_s \div 60))
              IN  IF remaining <= 0
                  THEN [a |-> [a EXCEPT !.status = ON_SITE, !.arrived_at = Some(t)],
                        crew |-> [crew EXCEPT !.status = ON_SITE, !.eta_minutes = Some(0),
                                              !.lat = a.target_lat, !.lon = a.target_lon],
                        repaired |-> FALSE]
                  ELSE [a |-> a,
                        crew |-> [crew EXCEPT
                                    !.eta_minutes = Some(remaining),
                                    !.lat = Interpolate(crew.lat, a.target_lat,
                                                        elapsed_s, a.eta_minutes),
                                    !.lon = Interpolate(crew.lon, a.target_lon,
                                                        elapsed_s, a.eta_minutes)],
                        repaired |-> FALSE]
    ELSE IF a.status = ON_SITE
    THEN [a |-> [a EXCEPT !.status = REPAIRING],
          crew |-> [crew EXCEPT !.status = REPAIRING], repaired |-> FALSE]
    ELSE IF a.status = REPAIRING /\ a.arrived_at # None
            /\ t - a.arrived_at[1] >= a.repair_minutes * 60
    THEN [a |-> [a EXCEPT !.status = COMPLETE, !.completed_at = Some(t)],
          crew |-> [crew EXCEPT !.status = COMPLETE], repaired |-> TRUE]
    ELSE [a |-> a, crew |-> crew, repaired |-> FALSE]

\* tick()'s loop over _assignments.values() from the i-th on (lines 374-415).
RECURSIVE TickFrom(_, _, _, _, _)
TickFrom(i, as, cs, rep, t) ==
    IF i > Len(as) THEN [as |-> as, cs |-> cs, rep |-> rep]
    ELSE IF as[i].crew_id \notin CrewIdsOf(cs) THEN TickFrom(i + 1, as, cs, rep, t)
    ELSE LET ci == CrewAt(cs, as[i].crew_id)
             r == TickOne(as[i], cs[ci], t)
         IN  TickFrom(i + 1, [as EXCEPT ![i] = r.a], [cs EXCEPT ![ci] = r.crew],
                      IF r.repaired THEN rep \cup {as[i].target_node_id} ELSE rep, t)

\* tick() on the session state.
TickCore ==
    LET r == TickFrom(1, assignments, crews, repaired_nodes, now)
    IN  /\ assignments' = r.as
        /\ crews' = r.cs
        /\ repaired_nodes' = r.rep
        /\ ret' = NoRet
        /\ UNCHANGED <<failed_nodes, id_counter, storm_mode, now, cvars>>

\* tick()
Tick == TickCore /\ UNCHANGED <<sched, late, cvars>>

\* get_status()
GetStatus ==
    /\ ret' = NoRet
    /\ UNCHANGED <<assignments, crews, failed_nodes, repaired_nodes, id_counter,
                   storm_mode, now, sched, late, cvars>>

\* list.sort(key=load_mw, reverse=True): stable, so nodes of equal load keep
\* their order in _failed_nodes.
RECURSIVE SortByLoadDesc(_)
SortByLoadDesc(nodes) ==
    IF nodes = <<>> THEN <<>>
    ELSE LET rest == SortByLoadDesc(Tail(nodes))
             h == Head(nodes)
             before == SelectSeq(rest, LAMBDA n : n.load_mw > h.load_mw)
             after == SelectSeq(rest, LAMBDA n : n.load_mw <= h.load_mw)
         IN  before \o <<h>> \o after

\* The score of a crew for a node (lines 249-256) as the fraction
\* ScoreNum / ScoreDen: match_mult * max(0.5, min(5, load / 500)) /
\* (dist_km + 1) * 1000 = ScoreNum * 100 / ScoreDen.
ScoreNum(crew, node) ==
    LET ideal == ClassifyFailure(node.voltage_kv, node.failure_type = "generation")[2]
        mult10 == SpecialtyMatchScore(crew.specialty, ideal)[1]
        sev1000 == Max2(500, Min2(5000, node.load_mw * 2))
    IN  mult10 * sev1000

ScoreDen(crew, node) ==
    HaversineM(crew.lat, crew.lon, node.lat, node.lon) + 1000

\* The inner loop without the `if cid in used_crews: continue`.
RECURSIVE BestCrewAmongAll(_, _, _, _, _)
BestCrewAmongAll(i, avail, used, node, best) ==
    IF i > Len(avail) THEN best
    ELSE IF best = 0
            \/ ScoreNum(avail[i], node) * ScoreDen(avail[best], node)
                 > ScoreNum(avail[best], node) * ScoreDen(avail[i], node)
         THEN BestCrewAmongAll(i + 1, avail, used, node, i)
    ELSE BestCrewAmongAll(i + 1, avail, used, node, best)

\* The inner loop of recommend_dispatch (lines 245-264): the index of the
\* best crew among avail[i..], given the best so far (0: none).
RECURSIVE BestCrew(_, _, _, _, _)
BestCrew(i, avail, used, node, best) ==
    IF i > Len(avail) THEN best
    ELSE IF avail[i].crew_id \in used THEN BestCrew(i + 1, avail, used, node, best)
    ELSE IF best = 0
            \/ ScoreNum(avail[i], node) * ScoreDen(avail[best], node)
                 > ScoreNum(avail[best], node) * ScoreDen(avail[i], node)
         THEN BestCrew(i + 1, avail, used, node, i)
    ELSE BestCrew(i + 1, avail, used, node, best)

\* The DispatchAssignment recommend_dispatch builds (lines 270-284).
RecommendedAssignment(crew, node, id, storm) ==
    LET dist == HaversineM(crew.lat, crew.lon, node.lat, node.lon)
        ideal == ClassifyFailure(node.voltage_kv, node.failure_type = "generation")[2]
        match == SpecialtyMatchScore(crew.specialty, ideal)
    IN  [assignment_id |-> id, crew_id |-> crew.crew_id, target_node_id |-> node.id,
         target_lat |-> node.lat, target_lon |-> node.lon,
         distance_m |-> PyRound(dist, 100) * 100,
         eta_minutes |-> EtaMinutes(dist, storm),
         specialty_match |-> match[2],
         match_score |-> PyRound(ScoreNum(crew, node) * 10000, ScoreDen(crew, node)),
         failure_type |-> node.failure_type, status |-> DISPATCHED,
         repair_minutes |-> REPAIR_TIME(node.failure_type),
         dispatched_at |-> None, arrived_at |-> None, completed_at |-> None]

\* The outer loop of recommend_dispatch over the sorted nodes (lines
\* 235-286).
RECURSIVE RecommendFrom(_, _, _, _, _, _, _)
RecommendFrom(nodes, avail, used, idc, storm, recs, leftover) ==
    IF nodes = <<>> THEN [assignments |-> recs, unassigned_nodes |-> leftover, idc |-> idc]
    ELSE LET node == Head(nodes)
             b == BestCrew(1, avail, used, node, 0)
         IN  IF b # 0
             THEN RecommendFrom(Tail(nodes), avail, used \cup {avail[b].crew_id}, idc + 1,
                                storm,
                                Append(recs, RecommendedAssignment(avail[b], node, idc + 1, storm)),
                                leftover)
             ELSE RecommendFrom(Tail(nodes), avail, used, idc, storm, recs,
                                Append(leftover, node.id))

\* recommend_dispatch() on the session state.
RecommendOn(as, cs, fns, rep, idc, storm) ==
    LET avail == GetAvailableCrews(cs)
        unassigned == SortByLoadDesc(GetUnassignedFailedNodes(as, fns, rep))
        r == RecommendFrom(unassigned, avail, {}, idc, storm, <<>>, <<>>)
    IN  [assignments |-> r.assignments, unassigned_nodes |-> r.unassigned_nodes,
         total_crews_available |-> Len(avail), total_failed_nodes |-> Len(unassigned),
         idc |-> r.idc]

\* Mutant: recommending stores the recommended assignments and marks their
\* crews DISPATCHED.
RecommendDispatchCommits ==
    LET r == RecommendOn(assignments, crews, failed_nodes, repaired_nodes,
                         id_counter, storm_mode)
        picked == {r.assignments[i].crew_id : i \in DOMAIN r.assignments}
    IN  /\ r.idc <= MaxId
        /\ id_counter' = r.idc
        /\ assignments' = assignments \o r.assignments
        /\ crews' = [i \in DOMAIN crews |->
                        IF crews[i].crew_id \in picked
                        THEN [crews[i] EXCEPT !.status = DISPATCHED]
                        ELSE crews[i]]
        /\ ret' = NoRet
        /\ UNCHANGED <<failed_nodes, repaired_nodes, storm_mode, now, sched, late, cvars>>

\* recommend_dispatch()
RecommendDispatch ==
    LET r == RecommendOn(assignments, crews, failed_nodes, repaired_nodes,
                         id_counter, storm_mode)
    IN  /\ r.idc <= MaxId
        /\ id_counter' = r.idc
        /\ ret' = NoRet
        /\ UNCHANGED <<assignments, crews, failed_nodes, repaired_nodes, storm_mode,
                       now, sched, late, cvars>>

\* The wall clock moves on between calls.
Advance(d, max) ==
    /\ now + d <= max
    /\ now' = now + d
    /\ UNCHANGED <<assignments, crews, failed_nodes, repaired_nodes, id_counter,
                   storm_mode, ret, sched, late, cvars>>

\* The storm flags reset is called with in Spec.
StormModes == {TRUE}

\* Seconds between calls explored by Spec.
ClockSteps == {4200}

Next ==
    \/ \E storm \in StormModes : Reset(storm)
    \/ \E roster \in Rosters : LoadCrews(roster)
    \/ \E steps \in CascadeResults : LoadFailedNodes(steps, GraphNodes)
    \/ RecommendDispatch
    \/ \E cid \in CrewIds, nid \in NodeIds : DispatchCrew(cid, nid)
    \/ \E pairs \in Pairings : DispatchAll(pairs)
    \/ Tick
    \/ GetStatus
    \/ \E d \in ClockSteps : Advance(d, MaxClockMin * 60)

Spec == Init /\ [][Next]_vars

\* ------------------------------------------------- one session, set up once

\* A session as the callers run it (routers/utility.py dispatch_init,
\* orchestrator_service): reset, load_crews and load_failed_nodes set it
\* up, and dispatch_crew, dispatch_all and tick follow; the loaders are not
\* called again once an assignment exists.
SessionNext ==
    \/ \E storm \in StormModes : Reset(storm)
    \/ \E roster \in Rosters : assignments = <<>> /\ LoadCrews(roster)
    \/ \E steps \in CascadeResults :
          assignments = <<>> /\ LoadFailedNodes(steps, GraphNodes)
    \/ RecommendDispatch
    \/ \E cid \in CrewIds, nid \in NodeIds : DispatchCrew(cid, nid)
    \/ \E pairs \in Pairings : DispatchAll(pairs)
    \/ Tick
    \/ GetStatus
    \/ \E d \in ClockSteps : Advance(d, MaxClockMin * 60)

SpecSession == Init /\ [][SessionNext]_vars

\* ------------------------------------------- one crew, ticks minute by minute

\* Minutes after the dispatch of the first assignment at which the ticks of
\* the state-machine scenario are made.
TickSchedule == <<0, 10, 70, 71>>

\* The second at which the first assignment is due to be repaired: its
\* dispatch time plus its ETA plus its repair duration.
DueAt(a) == a.dispatched_at[1] + (a.eta_minutes + a.repair_minutes) * 60

\* tick(), observed: sched counts the ticks while they follow TickSchedule
\* exactly (and is Len(TickSchedule) + 1 once one does not), late counts the
\* ticks made at or after DueAt, up to three.
TickObserved ==
    /\ TickCore
    /\ sched' = IF assignments = <<>> THEN sched
                ELSE IF /\ sched < Len(TickSchedule)
                        /\ now - assignments[1].dispatched_at[1]
                             = TickSchedule[sched + 1] * 60
                     THEN sched + 1
                ELSE Len(TickSchedule) + 1
    /\ late' = IF assignments # <<>> /\ now >= DueAt(assignments[1])
               THEN Min2(late + 1, 3)
               ELSE late

\* The wall clock jumps to a later moment between calls.
AdvanceTo(t) ==
    /\ now < t
    /\ now' = t
    /\ UNCHANGED <<assignments, crews, failed_nodes, repaired_nodes, id_counter,
                   storm_mode, ret, sched, late, cvars>>

\* Minutes of wall clock at which SpecTimeline makes its calls.
TimelineMinutes == {0, 5, 10, 70, 71, MaxTimelineMin}

\* The session after reset(storm), load_crews([c1]) and load_failed_nodes.
InitTimeline ==
    /\ assignments = <<>>
    /\ crews = <<LoadedCrew(RosterCrew("c1"))>>
    /\ \E steps \in CascadeResults : failed_nodes = LoadSteps(steps, GraphNodes, <<>>)
    /\ repaired_nodes = {}
    /\ id_counter = 0
    /\ storm_mode \in BOOLEAN
    /\ now = 0
    /\ ret = NoRet
    /\ sched = 0
    /\ late = 0
    /\ NoCascade

TimelineNext ==
    \/ \E cid \in CrewIds, nid \in NodeIds : DispatchCrew(cid, nid)
    \/ TickObserved
    \/ \E m \in TimelineMinutes : AdvanceTo(m * 60)

SpecTimeline == InitTimeline /\ [][TimelineNext]_vars

\* ------------------------------------------------------------------ claims

\* The assignments that have not reached COMPLETE.
Active == {i \in DOMAIN assignments : assignments[i].status # COMPLETE}

\* C1: no two assignments whose status is not COMPLETE share a target node.
C1_NoSharedTarget ==
    \A i, j \in Active :
        i # j => assignments[i].target_node_id # assignments[j].target_node_id

\* C2: no crew is named by two assignments whose status is not COMPLETE.
C2_NoCrewDoubleBooked ==
    \A i, j \in Active : i # j => assignments[i].crew_id # assignments[j].crew_id

\* C2 witness: a crew was dispatched again after its assignment completed.
C2_Witness ==
    \E i, j \in DOMAIN assignments :
        /\ assignments[i].crew_id = assignments[j].crew_id
        /\ assignments[i].status = COMPLETE
        /\ assignments[j].status # COMPLETE

\* The calls of dispatch_crew the claim says must fail: unknown crew, crew
\* neither STANDBY nor COMPLETE, or target not a failed node.
MustReject(cid, nid) ==
    \/ cid \notin CrewIdsOf(crews)
    \/ crews[CrewAt(crews, cid)].status \notin {STANDBY, COMPLETE}
    \/ nid \notin NodeIdsOf(failed_nodes)

\* C3: a dispatch_crew call with an unknown crew, a crew that is neither
\* STANDBY nor COMPLETE, or a target outside the failed-node set raises
\* ValueError and leaves assignments, crews, failed nodes and repaired nodes
\* unchanged.
C3_RejectedDispatchChangesNothing ==
    [][\A cid \in CrewIds, nid \in NodeIds :
          (ret'.op = "dispatch_crew" /\ MustReject(cid, nid) /\ DispatchCrew(cid, nid))
              => (ret'.raised /\ UNCHANGED state)]_vars

\* C3 witness: a dispatch_crew call has raised while a crew of the roster was
\* busy and another crew id was not in the roster.
C3_Witness ==
    /\ ret = Raised("dispatch_crew")
    /\ \E i \in DOMAIN crews : crews[i].status = REPAIRING
    /\ CrewIds \ CrewIdsOf(crews) # {}
    /\ NodeIds \ NodeIdsOf(failed_nodes) # {}

\* The position of a status along EN_ROUTE -> ON_SITE -> REPAIRING -> COMPLETE.
Rank(status) ==
    CASE status \in {DISPATCHED, EN_ROUTE} -> 1
      [] status = ON_SITE -> 2
      [] status = REPAIRING -> 3
      [] status = COMPLETE -> 4
      [] OTHER -> 0

\* C4: a tick moves every assignment's status forward by at most one state
\* and never backwards, and leaves an assignment that is COMPLETE as it is.
C4_TickMovesForward ==
    [][TickCore =>
          /\ Len(assignments') = Len(assignments)
          /\ \A i \in DOMAIN assignments :
                /\ Rank(assignments'[i].status) - Rank(assignments[i].status) \in {0, 1}
                /\ assignments[i].status = COMPLETE => assignments'[i] = assignments[i]]_vars

\* C4 witness: an assignment went through every state up to COMPLETE while
\* another one is still under way.
C4_Witness ==
    \E i, j \in DOMAIN assignments :
        /\ assignments[i].status = COMPLETE
        /\ assignments[i].arrived_at # None
        /\ assignments[i].completed_at # None
        /\ assignments[j].status = REPAIRING

\* The scenario's assignment: the first one, with ETA 10 and repair 60.
ScenarioAssignment ==
    /\ assignments # <<>>
    /\ assignments[1].eta_minutes = 10
    /\ assignments[1].repair_minutes = 60

\* C5: with ETA 10 and repair duration 60, after ticks at exactly 0, 10, 70
\* and 71 minutes from dispatch the assignment is EN_ROUTE, ON_SITE,
\* REPAIRING and COMPLETE respectively.
C5_ScheduledTicks ==
    (ScenarioAssignment /\ sched \in 1..Len(TickSchedule))
        => assignments[1].status = <<EN_ROUTE, ON_SITE, REPAIRING, COMPLETE>>[sched]

\* C5 witness: the four scheduled ticks were made and the repair is complete.
C5_Witness ==
    /\ ScenarioAssignment
    /\ sched = Len(TickSchedule)
    /\ assignments[1].status = COMPLETE
    /\ assignments[1].target_node_id \in repaired_nodes

\* C6: after three ticks made at or after dispatch time + ETA + repair
\* duration the first assignment is COMPLETE.
C6_ThreeLateTicksComplete ==
    (assignments # <<>> /\ late >= 3) => assignments[1].status = COMPLETE

\* C7: every assignment that is not COMPLETE has its crew in the roster, in
\* the assignment's status.
C7_CrewMirrorsAssignment ==
    \A i \in Active :
        /\ assignments[i].crew_id \in CrewIdsOf(crews)
        /\ crews[CrewAt(crews, assignments[i].crew_id)].status = assignments[i].status

\* C8: the target of every stored assignment is in the failed-node set.
C8_TargetsAreFailedNodes ==
    \A i \in DOMAIN assignments :
        assignments[i].target_node_id \in NodeIdsOf(failed_nodes)

\* C9: recommend_dispatch and get_status leave the assignments, the crews,
\* the failed-node set and the repaired-node set exactly as they were.
C9_ReadOnly ==
    [][(RecommendDispatch \/ GetStatus) => UNCHANGED state]_vars

\* C9 witness: a recommendation was computed (it took ids that no stored
\* assignment carries) in a session with an assignment under way, a free crew
\* and an unassigned failed node.
C9_Witness ==
    /\ id_counter > Len(assignments)
    /\ Active # {}
    /\ GetAvailableCrews(crews) # <<>>
    /\ GetUnassignedFailedNodes(assignments, failed_nodes, repaired_nodes) # <<>>

\* The pairings of a recommendation that are valid in the current state:
\* the crew is in the roster and STANDBY or COMPLETE, the target is a failed
\* node.  No crew occurs twice in a recommendation of Pairings, so a pairing
\* is valid when it is applied exactly if it is valid when the call starts.
ValidPairs(pairs) ==
    SelectSeq(pairs, LAMBDA p : ~MustReject(p[1], p[2]))

\* C10: dispatch_all never raises; it keeps the stored assignments, appends
\* one assignment for each valid pairing, in order, whatever pairings
\* before it were skipped, and returns exactly those.
C10_DispatchAllSkipsInvalid ==
    [][\A pairs \in Pairings :
          (ret'.op = "dispatch_all" /\ DispatchAll(pairs)) =>
              LET ok == ValidPairs(pairs)
                  n == Len(assignments)
              IN  /\ ~ret'.raised
                  /\ Len(assignments') = n + Len(ok)
                  /\ SubSeq(assignments', 1, n) = assignments
                  /\ Len(ret'.val) = Len(ok)
                  /\ \A k \in DOMAIN ok :
                        /\ assignments'[n + k].crew_id = ok[k][1]
                        /\ assignments'[n + k].target_node_id = ok[k][2]
                        /\ assignments'[n + k].status = EN_ROUTE
                        /\ ret'.val[k] = assignments'[n + k].assignment_id]_vars

\* C10 witness: a dispatch_all call confirmed one pairing of a recommendation
\* of two, for the second crew of the roster, the first being busy.
C10_Witness ==
    /\ ret.op = "dispatch_all"
    /\ Len(ret.val) = 1
    /\ Len(assignments) = 2
    /\ assignments[2].assignment_id = ret.val[1]
    /\ assignments[2].crew_id = "c2"
    /\ assignments[1].status # COMPLETE

\* ======================================================== cascade engine

MAX_CASCADE_ITERATIONS == 20
REDISTRIBUTION_PCT == 70            \* REDISTRIBUTION_FACTOR, percent
FAILURE_THRESHOLD_PCT == 105        \* FAILURE_THRESHOLD, percent
EXTREME_COLD_THRESHOLD == 20        \* degrees F
COLD_THRESHOLD == 32                \* degrees F
EXTREME_COLD_FAILURE_RATE == 4000   \* of 10000
COLD_FAILURE_RATE == 1500           \* of 10000

\* What random.random() returns after random.seed(42), call by call
\* (CPython's Mersenne Twister), in units of 1/10000, rounded down.
RandomStream ==
    <<6394, 250, 2750, 2232, 7364, 6766, 8921, 869, 4219, 297, 2186, 5053,
      265, 1988, 6498, 5449, 2204, 5892, 8094, 64, 8058, 6981, 3402, 1554>>

\* ---------------------------------------------------------------- bounds

MaxCascadeSec == 2   \* seconds of wall clock explored by the cascade specifications

\* ---------------------------------------------------------------- inputs

\* The attributes the grid graph keeps for a node.
GridNode(base, cap, zone, lat) ==
    [base_load_mw |-> base, capacity_mw |-> cap, weather_zone |-> zone,
     lat |-> lat, lon |-> -970000]

\* A graph: its nodes in insertion order, their attributes, and each node's
\* neighbours in the order g.neighbors() yields them.
Ring(n) ==
    [nodes |-> [i \in 1..n |-> i],
     attr |-> [i \in 1..n |-> GridNode(50000, 100000, "north", 300000 + i)],
     adj |-> [i \in 1..n |-> << (IF i = 1 THEN n ELSE i - 1),
                                (IF i = n THEN 1 ELSE i + 1) >>]]

Line(n) ==
    [nodes |-> [i \in 1..n |-> i],
     attr |-> [i \in 1..n |-> GridNode(50000, 100000, "north", 300000 + i)],
     adj |-> [i \in 1..n |-> IF i = 1 THEN <<2>>
                             ELSE IF i = n THEN <<n - 1>>
                             ELSE <<i - 1, i + 1>>]]

\* A plant (node 1) feeding a substation (node 2) with two feeders (3, 4),
\* 3 and 4 tied; node 4 carries no weather zone.
Feeder ==
    [nodes |-> <<1, 2, 3, 4>>,
     attr |-> <<GridNode(300000, 600000, "north", 300001),
                GridNode(50000, 100000, "north", 300002),
                GridNode(50000, 100000, "south", 300003),
                GridNode(50000, 100000, "", 300004)>>,
     adj |-> << <<2>>, <<1, 3, 4>>, <<2, 4>>, <<2, 3>> >>]

\* weather_by_zone values: a zone's record may lack temp_f.
UriWeather == [z \in {"north", "south", "west"} |->
                  IF z = "north" THEN [temp_f |-> 10]
                  ELSE IF z = "south" THEN [temp_f |-> 25]
                  ELSE [wind_mph |-> 30]]

ChillWeather == [z \in {"north"} |-> [temp_f |-> 25]]

MildWeather == [z \in {"north", "south"} |-> [temp_f |-> 50]]

\* The other arguments of a run_cascade call.
CascadeArgs(mult, weather) ==
    [demand_multipliers |-> mult, scenario_label |-> "uri_2021",
     forecast_hour |-> 36, weather_by_zone |-> weather]

\* The calls explored: the graph and the arguments.
CascadeInputs ==
    { <<Ring(5), CascadeArgs([n \in {1} |-> 30], None)>>,
      <<Ring(5), CascadeArgs([n \in {1, 2} |-> 30], None)>>,
      <<Ring(5), CascadeArgs([n \in {3} |-> 30], Some(ChillWeather))>>,
      <<Line(MAX_CASCADE_ITERATIONS + 2), CascadeArgs([n \in {1} |-> 30], None)>>,
      <<Feeder, CascadeArgs([n \in {3, 4} |-> 30], Some(UriWeather))>>,
      <<Feeder, CascadeArgs([n \in {2} |-> 29], Some(MildWeather))>>,
      <<Feeder, CascadeArgs(<<>>, None)>> }

\* The run_cascade invocations explored.
Invocations == {1, 2}

\* The positions the random module may be at when the process starts a run.
RngStarts == {0, 7}

\* ------------------------------------------------------------ operations

\* The locals of an invocation that has not started.
IdleRun ==
    [pc |-> "idle", started |-> None, g |-> <<>>, failed |-> {}, steps |-> <<>>,
     cold_weather_failures |-> <<>>, cursor |-> 0, iteration |-> 0,
     result |-> None]

\* The dispatch scheduler's variables, which run_cascade does not touch.
dvars == <<assignments, crews, failed_nodes, repaired_nodes, id_counter,
           storm_mode, ret, sched, late>>

InitCascade ==
    /\ assignments = <<>>
    /\ crews = <<>>
    /\ failed_nodes = <<>>
    /\ repaired_nodes = {}
    /\ id_counter = 0
    /\ storm_mode = TRUE
    /\ now = 0
    /\ ret = NoRet
    /\ sched = 0
    /\ late = 0
    /\ \E inp \in CascadeInputs : graph = inp[1] /\ args = inp[2]
    /\ run = [p \in Invocations |-> IdleRun]
    /\ rng \in RngStarts

\* A node of the working copy: the graph's attributes and current_load.
WithLoad(nd, load) ==
    [base_load_mw |-> nd.base_load_mw, capacity_mw |-> nd.capacity_mw,
     weather_zone |-> nd.weather_zone, lat |-> nd.lat, lon |-> nd.lon,
     current_load |-> load]

\* demand_multipliers.get(nid, 1.0), in tenths.
Multiplier(mult, nid) == IF nid \in DOMAIN mult THEN mult[nid] ELSE 10

\* The deep copy with the demand multipliers applied.
LoadedCopy(gr, mult) ==
    [n \in DOMAIN gr.attr |->
        WithLoad(gr.attr[n], (gr.attr[n].base_load_mw * Multiplier(mult, n)) \div 10)]

\* run_cascade with `g = graph` for the deep copy: the loads are written
\* into the caller's graph.
StartInPlace(p) ==
    /\ run[p].pc = "idle"
    /\ run' = [run EXCEPT ![p] = [@ EXCEPT !.pc = "weather",
                                           !.started = Some(now),
                                           !.g = LoadedCopy(graph, args.demand_multipliers)]]
    /\ graph' = [graph EXCEPT !.attr = LoadedCopy(graph, args.demand_multipliers)]
    /\ UNCHANGED <<args, rng, now, dvars>>

\* run_cascade up to the weather stage: the start timestamp, the deep copy,
\* the demand multipliers.
Start(p) ==
    /\ run[p].pc = "idle"
    /\ run' = [run EXCEPT ![p] = [@ EXCEPT !.pc = "weather",
                                           !.started = Some(now),
                                           !.g = LoadedCopy(graph, args.demand_multipliers)]]
    /\ UNCHANGED <<graph, args, rng, now, dvars>>

\* The truth value of weather_by_zone: None and the empty dict are false.
WeatherSupplied(w) == w # None /\ DOMAIN w[1] # {}

\* The weather stage without random.seed(42): the draws continue wherever
\* the random module is.
WeatherSeedUnseeded(p) ==
    /\ run[p].pc = "weather"
    /\ run' = [run EXCEPT ![p] =
                  IF WeatherSupplied(args.weather_by_zone)
                  THEN [@ EXCEPT !.pc = "draw", !.cursor = 1]
                  ELSE [@ EXCEPT !.pc = "cascade"]]
    /\ UNCHANGED <<graph, args, rng, now, dvars>>

\* With weather: random.seed(42), and the loop over the nodes begins.
\* Without: on to the cascade.
WeatherSeed(p) ==
    /\ run[p].pc = "weather"
    /\ IF WeatherSupplied(args.weather_by_zone)
       THEN /\ rng' = 0
            /\ run' = [run EXCEPT ![p] = [@ EXCEPT !.pc = "draw", !.cursor = 1]]
       ELSE /\ rng' = rng
            /\ run' = [run EXCEPT ![p] = [@ EXCEPT !.pc = "cascade"]]
    /\ UNCHANGED <<graph, args, now, dvars>>

\* weather.get("temp_f", 70.0)
TempF(w) == IF "temp_f" \in DOMAIN w THEN w.temp_f ELSE 70

\* The failure probability of a node at a temperature, of 10000.
FailureProb(temp_f, capacity) ==
    LET base == IF temp_f < EXTREME_COLD_THRESHOLD THEN EXTREME_COLD_FAILURE_RATE
                ELSE IF temp_f < COLD_THRESHOLD THEN COLD_FAILURE_RATE
                ELSE 0
    IN  IF base > 0 /\ capacity > 500000 THEN base * 2 ELSE base

\* One pass of the weather loop, for the node at the cursor: a node whose
\* zone has weather and a positive failure probability takes one draw from
\* the random module, and fails when the draw is below the probability.
WeatherNodeOn(r, w, pos) ==
    LET nid == graph.nodes[r.cursor]
        zone == r.g[nid].weather_zone
        known == zone \in DOMAIN w /\ DOMAIN w[zone] # {}
        failure_prob == IF known THEN FailureProb(TempF(w[zone]), r.g[nid].capacity_mw)
                        ELSE 0
        fails == failure_prob > 0 /\ RandomStream[pos + 1] < failure_prob
    IN  [run |-> [r EXCEPT !.cursor = @ + 1,
                           !.cold_weather_failures = IF fails THEN Append(@, nid) ELSE @,
                           !.failed = IF fails THEN @ \cup {nid} ELSE @,
                           !.g = IF fails THEN [@ EXCEPT ![nid].current_load = 0] ELSE @],
         rng |-> IF failure_prob > 0 THEN pos + 1 ELSE pos]

WeatherNode(p) ==
    /\ run[p].pc = "draw"
    /\ run[p].cursor <= Len(graph.nodes)
    /\ LET o == WeatherNodeOn(run[p], args.weather_by_zone[1], rng)
       IN  /\ run' = [run EXCEPT ![p] = o.run]
           /\ rng' = o.rng
    /\ UNCHANGED <<graph, args, now, dvars>>

\* round(x, 1) of a load: to the nearest 0.1 MW.
Round1(x) == PyRound(x, 100) * 100

\* The new_failures entry of a node that failed in the weather stage.
ColdFailure(g, nid) ==
    [id |-> nid, lat |-> g[nid].lat, lon |-> g[nid].lon, load_mw |-> 0,
     capacity_mw |-> Round1(g[nid].capacity_mw)]

\* After the weather loop: the weather failures, if any, are step -1.
WeatherRecord(p) ==
    /\ run[p].pc = "draw"
    /\ run[p].cursor > Len(graph.nodes)
    /\ LET r == run[p]
           cold == r.cold_weather_failures
           step == [step |-> -1,
                    new_failures |-> [i \in DOMAIN cold |-> ColdFailure(r.g, cold[i])],
                    reroutes |-> <<>>,
                    total_failed |-> Cardinality(r.failed),
                    total_load_shed_mw |-> 0]
       IN  run' = [run EXCEPT ![p] =
                      [r EXCEPT !.pc = "cascade",
                                !.steps = IF cold # <<>> THEN Append(@, step) ELSE @]]
    /\ UNCHANGED <<graph, args, rng, now, dvars>>

\* The nodes not yet failed whose load exceeds the nameplate capacity.
OverloadedAtNameplate(g, failed, nodes) ==
    SelectSeq(nodes, LAMBDA nid :
        /\ nid \notin failed
        /\ g[nid].current_load > g[nid].capacity_mw)

\* The scan without the `if nid in failed: continue`.
OverloadedAmongAll(g, failed, nodes) ==
    SelectSeq(nodes, LAMBDA nid :
        g[nid].current_load * 100 > g[nid].capacity_mw * FAILURE_THRESHOLD_PCT)

\* The nodes not yet failed whose load exceeds 105% of capacity, in node order.
Overloaded(g, failed, nodes) ==
    SelectSeq(nodes, LAMBDA nid :
        /\ nid \notin failed
        /\ g[nid].current_load * 100 > g[nid].capacity_mw * FAILURE_THRESHOLD_PCT)

\* The inner loop over a failed node's alive neighbours.
RECURSIVE ShareOut(_, _, _, _, _)
ShareOut(alive, nid, per_neighbour, g, reroutes) ==
    IF alive = <<>> THEN [g |-> g, reroutes |-> reroutes]
    ELSE LET nb == Head(alive)
         IN  ShareOut(Tail(alive), nid, per_neighbour,
                      [g EXCEPT ![nb].current_load = @ + per_neighbour],
                      Append(reroutes,
                             [from_id |-> nid, to_id |-> nb,
                              from_lat |-> g[nid].lat, from_lon |-> g[nid].lon,
                              to_lat |-> g[nb].lat, to_lon |-> g[nb].lon,
                              load_mw |-> Round1(per_neighbour)]))

\* The neighbours of a node, failed or not.
AliveNeighboursUnfiltered(nid, failed) == graph.adj[nid]

\* The neighbours of a node that have not failed.
AliveNeighbours(nid, failed) ==
    SelectSeq(graph.adj[nid], LAMBDA nb : nb \notin failed)

\* The loop that redistributes the load of the newly failed nodes.
RECURSIVE Redistribute(_, _, _, _)
Redistribute(new_failures, failed, g, reroutes) ==
    IF new_failures = <<>> THEN [g |-> g, reroutes |-> reroutes]
    ELSE LET nid == Head(new_failures)
             load_to_shed == (g[nid].current_load * REDISTRIBUTION_PCT) \div 100
             alive_neighbours == AliveNeighbours(nid, failed)
             o == IF alive_neighbours # <<>>
                  THEN ShareOut(alive_neighbours, nid,
                                load_to_shed \div Len(alive_neighbours), g, reroutes)
                  ELSE [g |-> g, reroutes |-> reroutes]
         IN  Redistribute(Tail(new_failures), failed, o.g, o.reroutes)

\* The loads of the failed nodes among the first i nodes, added up.
RECURSIVE SumLoads(_, _, _)
SumLoads(g, failed, i) ==
    IF i = 0 THEN 0
    ELSE (IF graph.nodes[i] \in failed THEN g[graph.nodes[i]].current_load ELSE 0)
            + SumLoads(g, failed, i - 1)

\* sum(g.nodes[nid]["current_load"] for nid in failed)
TotalShed(g, failed) == SumLoads(g, failed, Len(graph.nodes))

\* The new_failures entry of a node that failed in an iteration.
NewFailure(g, nid) ==
    [id |-> nid, lat |-> g[nid].lat, lon |-> g[nid].lon,
     load_mw |-> Round1(g[nid].current_load),
     capacity_mw |-> Round1(g[nid].capacity_mw)]

\* The loop body with `failed = set(new_failures)` for failed.update.
IterateOnReplacing(r, new_failures) ==
    LET failed == {new_failures[i] : i \in DOMAIN new_failures}
        o == Redistribute(new_failures, failed, r.g, <<>>)
        step == [step |-> r.iteration,
                 new_failures |-> [i \in DOMAIN new_failures |->
                                      NewFailure(o.g, new_failures[i])],
                 reroutes |-> o.reroutes,
                 total_failed |-> Cardinality(failed),
                 total_load_shed_mw |-> Round1(TotalShed(o.g, failed))]
    IN  [r EXCEPT !.failed = failed, !.g = o.g, !.steps = Append(@, step),
                  !.iteration = @ + 1]

\* The loop body with the redistribution before failed.update: the nodes
\* failing in this iteration still count as alive neighbours.
IterateOnSharingFirst(r, new_failures) ==
    LET failed == r.failed \cup {new_failures[i] : i \in DOMAIN new_failures}
        o == Redistribute(new_failures, r.failed, r.g, <<>>)
        step == [step |-> r.iteration,
                 new_failures |-> [i \in DOMAIN new_failures |->
                                      NewFailure(o.g, new_failures[i])],
                 reroutes |-> o.reroutes,
                 total_failed |-> Cardinality(failed),
                 total_load_shed_mw |-> Round1(TotalShed(o.g, failed))]
    IN  [r EXCEPT !.failed = failed, !.g = o.g, !.steps = Append(@, step),
                  !.iteration = @ + 1]

\* The body of the cascade loop for one value of iteration, with new
\* failures found.
IterateOn(r, new_failures) ==
    LET failed == r.failed \cup {new_failures[i] : i \in DOMAIN new_failures}
        o == Redistribute(new_failures, failed, r.g, <<>>)
        step == [step |-> r.iteration,
                 new_failures |-> [i \in DOMAIN new_failures |->
                                      NewFailure(o.g, new_failures[i])],
                 reroutes |-> o.reroutes,
                 total_failed |-> Cardinality(failed),
                 total_load_shed_mw |-> Round1(TotalShed(o.g, failed))]
    IN  [r EXCEPT !.failed = failed, !.g = o.g, !.steps = Append(@, step),
                  !.iteration = @ + 1]

\* The loop without its iteration cap: `while True`.
LoopContinuesUncapped(r) == r.iteration >= 0

\* The loop as `for iteration in range(2)`.
LoopContinuesTwice(r) == r.iteration < 2

\* Whether the cascade loop runs its body once more.
LoopContinues(r) == r.iteration < MAX_CASCADE_ITERATIONS

\* One turn of `for iteration in range(MAX_CASCADE_ITERATIONS)`: the loop
\* ends when the range is exhausted or no node is newly overloaded.
Iterate(p) ==
    /\ run[p].pc = "cascade"
    /\ LET r == run[p]
           new_failures == Overloaded(r.g, r.failed, graph.nodes)
       IN  run' = [run EXCEPT ![p] =
                      IF LoopContinues(r) /\ new_failures # <<>>
                      THEN IterateOn(r, new_failures)
                      ELSE [r EXCEPT !.pc = "final"]]
    /\ UNCHANGED <<graph, args, rng, now, dvars>>

\* sorted(failed): the k-th entry has k - 1 smaller ones.
Sorted(S) ==
    [k \in 1..Cardinality(S) |->
        CHOOSE x \in S : Cardinality({y \in S : y < x}) = k - 1]

\* The final state of a node: pct > 80 is load * 100 > 80 * cap, and
\* load_pct is in units of 0.1 percent.
FinalState(nd, is_failed) ==
    LET load == nd.current_load
        cap == nd.capacity_mw
    IN  [status |-> IF is_failed THEN "failed"
                    ELSE IF cap > 0 /\ load * 100 > 80 * cap THEN "stressed"
                    ELSE "nominal",
         current_load_mw |-> Round1(load),
         capacity_mw |-> Round1(cap),
         load_pct |-> IF cap > 0 THEN PyRound(load * 1000, cap) ELSE 0]

\* The dict run_cascade returns.
CascadeResult(r, a, nodes, completed) ==
    [scenario |-> a.scenario_label,
     forecast_hour |-> a.forecast_hour,
     started_at |-> r.started[1],
     completed_at |-> completed,
     steps |-> r.steps,
     total_failed_nodes |-> Cardinality(r.failed),
     total_nodes |-> Len(nodes),
     cascade_depth |-> Len(r.steps),
     total_load_shed_mw |-> Round1(TotalShed(r.g, r.failed)),
     failed_node_ids |-> Sorted(r.failed),
     final_node_states |-> [n \in DOMAIN r.g |-> FinalState(r.g[n], n \in r.failed)]]

\* run_cascade after the loop: the final node states, the end timestamp and
\* the result.
Finish(p) ==
    /\ run[p].pc = "final"
    /\ run' = [run EXCEPT ![p] =
                  [@ EXCEPT !.pc = "done",
                            !.result = Some(CascadeResult(run[p], args, graph.nodes, now))]]
    /\ UNCHANGED <<graph, args, rng, now, dvars>>

\* A step of invocation p.
RunStep(p) ==
    \/ WeatherSeed(p)
    \/ WeatherNode(p)
    \/ WeatherRecord(p)
    \/ Iterate(p)
    \/ Finish(p)

\* Invocations made one after the other by one caller, the wall clock
\* moving on in between.
CascadeNext ==
    \/ \E p \in Invocations : (\A q \in Invocations : q < p => run[q].pc = "done") /\ Start(p)
    \/ \E p \in Invocations : WeatherSeed(p)
    \/ \E p \in Invocations : WeatherNode(p)
    \/ \E p \in Invocations : WeatherRecord(p)
    \/ \E p \in Invocations : Iterate(p)
    \/ \E p \in Invocations : Finish(p)
    \/ Advance(1, MaxCascadeSec)

SpecCascade == InitCascade /\ [][CascadeNext]_vars

\* run_cascade is straight-line code: an invocation that can take a step
\* takes it.
SpecCascadeLive ==
    InitCascade /\ [][CascadeNext]_vars /\ \A p \in Invocations : WF_vars(RunStep(p) \/ Start(p))

\* Invocations made from concurrent threads: their steps interleave.
ReentrantNext ==
    \/ \E p \in Invocations : Start(p)
    \/ \E p \in Invocations : WeatherSeed(p)
    \/ \E p \in Invocations : WeatherNode(p)
    \/ \E p \in Invocations : WeatherRecord(p)
    \/ \E p \in Invocations : Iterate(p)
    \/ \E p \in Invocations : Finish(p)

SpecReentrant == InitCascade /\ [][ReentrantNext]_vars

\* ------------------------------------------------- claims: cascade engine

\* The step indices of an invocation: an optional first step -1, then
\* 0, 1, ..., k-1 with k at most MAX_CASCADE_ITERATIONS.
StepShape(st) ==
    LET pre == IF st # <<>> /\ st[1].step = -1 THEN 1 ELSE 0
    IN  /\ \A i \in DOMAIN st : i > pre => st[i].step = i - pre - 1
        /\ Len(st) - pre <= MAX_CASCADE_ITERATIONS
        /\ Len(st) <= MAX_CASCADE_ITERATIONS + 1

AllDone == \A p \in Invocations : run[p].pc = "done"

\* C11: run_cascade always terminates, and its steps are an optional step
\* -1 followed by steps 0, 1, ..., k-1 with k <= 20, so that cascade_depth
\* never exceeds 21.
C11_TerminatesWithinCap ==
    /\ [](\A p \in Invocations :
            /\ StepShape(run[p].steps)
            /\ run[p].pc = "done" =>
                  /\ run[p].result[1].cascade_depth = Len(run[p].steps)
                  /\ run[p].result[1].cascade_depth <= MAX_CASCADE_ITERATIONS + 1)
    /\ <>AllDone

\* An invocation that the iteration cap ended: 20 redistribution steps, and
\* a node still overloaded.
C11_Witness ==
    \E p \in Invocations :
        /\ run[p].pc = "done"
        /\ run[p].result[1].cascade_depth = MAX_CASCADE_ITERATIONS
        /\ Overloaded(run[p].g, run[p].failed, graph.nodes) # <<>>

\* total_failed is non-decreasing along the steps.
TotalFailedMonotone(st) ==
    \A i \in DOMAIN st : i > 1 => st[i - 1].total_failed <= st[i].total_failed

\* C12: within one run the failed set only grows, the total_failed of
\* successive steps is non-decreasing, and total_failed_nodes equals the
\* size of the final failed set and the length of failed_node_ids.
C12_FailedSetGrows ==
    [][\A p \in Invocations :
          /\ run[p].failed \subseteq run'[p].failed
          /\ TotalFailedMonotone(run'[p].steps)
          /\ run'[p].pc = "done" =>
                /\ run'[p].result[1].total_failed_nodes = Cardinality(run'[p].failed)
                /\ run'[p].result[1].total_failed_nodes
                      = Len(run'[p].result[1].failed_node_ids)]_vars

\* A finished run with weather failures and two later rounds of failures.
C12_Witness ==
    \E p \in Invocations :
        /\ run[p].pc = "done"
        /\ Len(run[p].steps) >= 3
        /\ run[p].steps[1].step = -1
        /\ run[p].steps[1].total_failed < run[p].steps[3].total_failed
        /\ run[p].result[1].total_failed_nodes = run[p].steps[Len(run[p].steps)].total_failed

\* The neighbours of f that are alive once the set failed has failed.
AliveSet(f, failed) ==
    {graph.adj[f][i] : i \in DOMAIN graph.adj[f]} \ failed

\* What each alive neighbour of f receives: 70% of f's load, split equally.
Share(g, f, failed) ==
    ((g[f].current_load * REDISTRIBUTION_PCT) \div 100) \div Cardinality(AliveSet(f, failed))

RECURSIVE SumShares(_, _, _, _)
SumShares(fs, n, g, failed) ==
    IF fs = {} THEN 0
    ELSE LET f == CHOOSE x \in fs : TRUE
         IN  (IF n \in AliveSet(f, failed) THEN Share(g, f, failed) ELSE 0)
                + SumShares(fs \ {f}, n, g, failed)

\* C13: when a node fails in a redistribution iteration with at least one
\* alive neighbour, its alive neighbours together receive 70% of its load at
\* failure time in equal shares (to within the 0.001 MW quantum per
\* neighbour), one reroute record each; with no alive neighbour no load is
\* increased on its behalf and no reroute record is produced for it.
C13_RedistributesSeventyPercent ==
    [][\A p \in Invocations :
          (run[p].pc = "cascade" /\ run'[p].iteration = run[p].iteration + 1) =>
             LET g == run[p].g
                 g2 == run'[p].g
                 failed == run'[p].failed
                 new == failed \ run[p].failed
                 rr == run'[p].steps[Len(run'[p].steps)].reroutes
             IN  /\ new # {}
                 /\ \A n \in DOMAIN g :
                       g2[n].current_load - g[n].current_load
                          = SumShares(new, n, g, failed)
                 /\ \A f \in new :
                       LET alive == AliveSet(f, failed)
                           shed == (g[f].current_load * REDISTRIBUTION_PCT) \div 100
                           sent == {k \in DOMAIN rr : rr[k].from_id = f}
                       IN  /\ {rr[k].to_id : k \in sent} = alive
                           /\ Cardinality(sent) = Cardinality(alive)
                           /\ alive # {} =>
                                 /\ g[f].current_load * REDISTRIBUTION_PCT - 100 * shed \in 0..99
                                 /\ shed - Cardinality(alive) * Share(g, f, failed)
                                       \in 0..(Cardinality(alive) - 1)
                                 /\ \A k \in sent :
                                       rr[k].load_mw = Round1(Share(g, f, failed))]_vars

\* Both cases have happened in one run: a node failed with alive neighbours
\* next to a node that failed in the same iteration, and a node failed with
\* no alive neighbour.
C13_Witness ==
    \E p \in Invocations :
        /\ run[p].pc = "done"
        /\ \E i \in DOMAIN run[p].steps :
              /\ Len(run[p].steps[i].new_failures) = 2
              /\ Len(run[p].steps[i].reroutes) = 2
        /\ \E i \in DOMAIN run[p].steps :
              /\ run[p].steps[i].step >= 0
              /\ run[p].steps[i].reroutes = <<>>

BothDone == run[1].pc = "done" /\ run[2].pc = "done"

\* C14 as stated: two invocations with the same snapshot, demand
\* multipliers, scenario label, forecast hour and zone weather return
\* results equal in every field.
C14_EqualInEveryField ==
    BothDone => run[1].result = run[2].result

\* A result without its wall-clock timestamps.
Untimed(res) == [res EXCEPT !.started_at = 0, !.completed_at = 0]

\* C14, amended: two invocations with the same snapshot, demand multipliers,
\* scenario label, forecast hour and zone weather return results equal in
\* every field other than started_at and completed_at.
C14_EqualButTimestamps ==
    BothDone => Untimed(run[1].result[1]) = Untimed(run[2].result[1])

\* Two finished invocations with weather failures, the second started after
\* the first returned at a later second.
C14_Witness ==
    /\ BothDone
    /\ run[1].cold_weather_failures # <<>>
    /\ run[2].result[1].steps[1].step = -1
    /\ run[1].result[1].completed_at < run[2].result[1].started_at

\* The weather loop of an invocation running alone, from the seed on.
RECURSIVE WeatherLoop(_, _, _)
WeatherLoop(r, w, pos) ==
    IF r.cursor > Len(graph.nodes) THEN r
    ELSE WeatherLoop(WeatherNodeOn(r, w, pos).run, w, WeatherNodeOn(r, w, pos).rng)

\* The cascade loop of an invocation running alone.
RECURSIVE CascadeLoop(_)
CascadeLoop(r) ==
    IF LoopContinues(r) /\ Overloaded(r.g, r.failed, graph.nodes) # <<>>
    THEN CascadeLoop(IterateOn(r, Overloaded(r.g, r.failed, graph.nodes)))
    ELSE r

\* The locals of an invocation with zone weather that ran alone.
RunAlone ==
    CascadeLoop(WeatherLoop([IdleRun EXCEPT !.g = LoadedCopy(graph, args.demand_multipliers),
                                            !.cursor = 1],
                            args.weather_by_zone[1], 0))

\* C15: of two invocations with zone weather whose steps interleave, each
\* returns the weather pre-failures and the failed-node set it returns when
\* run alone.
C15_Reentrant ==
    \A p \in Invocations :
        (run[p].pc = "done" /\ WeatherSupplied(args.weather_by_zone)) =>
            /\ run[p].cold_weather_failures = RunAlone.cold_weather_failures
            /\ Sorted(run[p].failed) = Sorted(RunAlone.failed)

\* C16: run_cascade never mutates the graph it is given: the nodes, their
\* attributes and the edges stay as they were, and no node of it has a
\* current_load attribute.
C16_GraphNotMutated ==
    [][/\ graph' = graph
       /\ \A n \in DOMAIN graph'.attr : "current_load" \notin DOMAIN graph'.attr[n]]_vars

\* A finished invocation whose working copy carries loads that differ from
\* the base loads of the graph.
C16_Witness ==
    \E p \in Invocations :
        /\ run[p].pc = "done"
        /\ \E n \in DOMAIN graph.attr :
              run[p].g[n].current_load # graph.attr[n].base_load_mw

\* The 5-node ring, every capacity 100 MW and base load 50 MW, multiplier
\* 3.0 on node 1 only, no weather.
RingScenario ==
    /\ graph = Ring(5)
    /\ args = CascadeArgs([n \in {1} |-> 30], None)

\* C17: in the ring scenario step 0 fails exactly node 1 and moves 52.5 MW
\* to each of its two neighbours, which end at 102.5 MW, below the 105 MW
\* threshold: no further step, cascade_depth = 1, total_failed_nodes = 1,
\* the two neighbours stressed and the other two nodes nominal.
C17_RingScenario ==
    \A p \in Invocations :
        (RingScenario /\ run[p].pc = "done") =>
            LET res == run[p].result[1]
            IN  /\ res.cascade_depth = 1
                /\ res.total_failed_nodes = 1
                /\ res.failed_node_ids = <<1>>
                /\ Len(res.steps) = 1
                /\ res.steps[1].step = 0
                /\ [i \in DOMAIN res.steps[1].new_failures |->
                       res.steps[1].new_failures[i].id] = <<1>>
                /\ Len(res.steps[1].reroutes) = 2
                /\ {res.steps[1].reroutes[k].to_id : k \in 1..2} = {2, 5}
                /\ \A k \in 1..2 :
                      /\ res.steps[1].reroutes[k].from_id = 1
                      /\ res.steps[1].reroutes[k].load_mw = 52500
                /\ \A n \in {2, 5} :
                      /\ run[p].g[n].current_load = 102500
                      /\ run[p].g[n].current_load * 100
                            <= run[p].g[n].capacity_mw * FAILURE_THRESHOLD_PCT
                      /\ res.final_node_states[n].status = "stressed"
                /\ \A n \in {3, 4} : res.final_node_states[n].status = "nominal"
                /\ res.final_node_states[1].status = "failed"

\* The ring scenario has run to its result.
C17_Witness ==
    /\ RingScenario
    /\ \E p \in Invocations :
          /\ run[p].pc = "done"
          /\ run[p].result[1].final_node_states[2].current_load_mw = 102500

\* --------------------------------------- sessions reloaded while they run

\* The session as dispatch_init leaves it: reset, load_crews with a roster,
\* load_failed_nodes with a cascade result.
InitReload ==
    /\ assignments = <<>>
    /\ \E roster \in Rosters :
          crews = [i \in DOMAIN roster |-> LoadedCrew(RosterCrew(roster[i]))]
    /\ \E steps \in CascadeResults : failed_nodes = LoadSteps(steps, GraphNodes, <<>>)
    /\ repaired_nodes = {}
    /\ id_counter = 0
    /\ storm_mode = TRUE
    /\ now = 0
    /\ ret = NoRet
    /\ sched = 0
    /\ late = 0
    /\ NoCascade

\* reset, load_crews and load_failed_nodes called at any moment of a session
\* of dispatch_crew and tick calls.
ReloadNext ==
    \/ \E storm \in StormModes : Reset(storm)
    \/ \E roster \in Rosters : LoadCrews(roster)
    \/ \E steps \in CascadeResults : LoadFailedNodes(steps, GraphNodes)
    \/ \E cid \in CrewIds, nid \in NodeIds : DispatchCrew(cid, nid)
    \/ Tick
    \/ \E d \in ClockSteps : Advance(d, MaxClockMin * 60)

SpecReload == InitReload /\ [][ReloadNext]_vars

\* ---------------------------------------------- claims: setting up sessions

\* C18: after load_crews(roster) the working crew list holds exactly the
\* crews of the roster, each STANDBY with no assigned target and no ETA,
\* whatever status the roster declared and whatever crews were loaded before.
C18_LoadCrewsForcesStandby ==
    [][\A roster \in Rosters :
          LoadCrews(roster) =>
             /\ Len(crews') = Len(roster)
             /\ \A i \in DOMAIN roster :
                   /\ crews'[i].crew_id = roster[i]
                   /\ crews'[i].status = STANDBY
                   /\ crews'[i].assigned_region = None
                   /\ crews'[i].eta_minutes = None
                   /\ crews'[i].lat = RosterCrew(roster[i]).lat
                   /\ crews'[i].lon = RosterCrew(roster[i]).lon
                   /\ crews'[i].specialty = RosterCrew(roster[i]).specialty]_vars

\* load_crews has replaced a crew that was on an assignment, and whose roster
\* entry declares another status: the crew is STANDBY at its roster position
\* while its assignment is still open.
C18_Witness ==
    /\ crews # <<>>
    /\ \A i \in DOMAIN crews : crews[i].status = STANDBY
    /\ \E i \in DOMAIN crews, j \in DOMAIN assignments :
          /\ assignments[j].crew_id = crews[i].crew_id
          /\ assignments[j].status \in {ON_SITE, REPAIRING}
          /\ RosterCrew(crews[i].crew_id).status = DEPLOYED

\* C19: reset can be called in any state and leaves the assignments, the
\* crew roster, the failed-node set and the repaired-node set empty; what it
\* leaves depends on the storm flag only, so that a second reset with the
\* same flag leaves the state the first one left.
C19_ResetWipes ==
    [][\A storm \in StormModes :
          Reset(storm) =>
             /\ assignments' = <<>>
             /\ crews' = <<>>
             /\ failed_nodes' = <<>>
             /\ repaired_nodes' = {}
             /\ id_counter' = 0
             /\ storm_mode' = storm
             /\ now' = now]_vars

\* reset has wiped a session (every session of SpecReload starts with crews
\* loaded) after its clock had moved on.
C19_Witness ==
    /\ assignments = <<>>
    /\ crews = <<>>
    /\ failed_nodes = <<>>
    /\ repaired_nodes = {}
    /\ id_counter = 0
    /\ now > 0

\* C20: every recommendation of recommend_dispatch is a matching of crews in
\* STANDBY or COMPLETE with failed nodes that have no non-terminal assignment
\* and are not repaired: no crew and no node occurs twice, the number of
\* pairings is the smaller of the two counts, and unassigned_nodes is exactly
\* the set of such nodes left unpaired (all of them when there is no crew).
C20_RecommendationIsMatching ==
    LET rec == RecommendOn(assignments, crews, failed_nodes, repaired_nodes,
                           id_counter, storm_mode)
        pairs == rec.assignments
        free == {crews[i].crew_id : i \in {j \in DOMAIN crews :
                                             crews[j].status \in {STANDBY, COMPLETE}}}
        claimed == {assignments[i].target_node_id :
                       i \in {j \in DOMAIN assignments : assignments[j].status # COMPLETE}}
        open == {failed_nodes[i].id : i \in DOMAIN failed_nodes} \ (claimed \cup repaired_nodes)
        paired == {pairs[k].target_node_id : k \in DOMAIN pairs}
    IN  /\ \A k \in DOMAIN pairs :
              /\ pairs[k].crew_id \in free
              /\ pairs[k].target_node_id \in open
        /\ \A k, l \in DOMAIN pairs :
              k # l => /\ pairs[k].crew_id # pairs[l].crew_id
                       /\ pairs[k].target_node_id # pairs[l].target_node_id
        /\ Len(pairs) = Min2(Cardinality(free), Cardinality(open))
        /\ {rec.unassigned_nodes[k] : k \in DOMAIN rec.unassigned_nodes} = open \ paired
        /\ Len(rec.unassigned_nodes) = Cardinality(open \ paired)
        /\ crews = <<>> => pairs = <<>>

\* recommend_dispatch has handed out an id without any dispatch following,
\* and in the current state it pairs the one crew of the roster and leaves
\* the other failed node unassigned.
C20_Witness ==
    LET rec == RecommendOn(assignments, crews, failed_nodes, repaired_nodes,
                           id_counter, storm_mode)
    IN  /\ id_counter > Len(assignments)
        /\ Len(crews) = 1
        /\ Len(rec.assignments) = 1
        /\ Len(rec.unassigned_nodes) = 1

\* ------------------------------------------ sessions with nodes of equal load

\* Cascade results in which two nodes fail with the same load, the node with
\* the greater id first: in different steps, and in the same step (every
\* weather pre-failure of step -1 is recorded with load 0).
TiedResults ==
    { << <<Failure("n2", 600)>>, <<Failure("n1", 600)>> >>,
      << <<Failure("n2", 0), Failure("n1", 0)>> >>,
      << <<Failure("n1", 600)>>, <<Failure("n2", 300)>> >> }

\* The sessions of SessionNext, set up from the cascade results above.
GreedyNext ==
    \/ \E storm \in StormModes : Reset(storm)
    \/ \E roster \in Rosters : assignments = <<>> /\ LoadCrews(roster)
    \/ \E steps \in TiedResults :
          assignments = <<>> /\ LoadFailedNodes(steps, GraphNodes)
    \/ RecommendDispatch
    \/ \E cid \in CrewIds, nid \in NodeIds : DispatchCrew(cid, nid)
    \/ Tick
    \/ \E d \in ClockSteps : Advance(d, MaxClockMin * 60)

SpecGreedy == Init /\ [][GreedyNext]_vars

\* --------------------------------------------- claims: the recommendation

\* The order of node ids.
NodeRank(nid) == IF nid = "n1" THEN 1 ELSE 2

\* The recommendation recommend_dispatch returns in the current state.
Recommendation ==
    RecommendOn(assignments, crews, failed_nodes, repaired_nodes, id_counter, storm_mode)

\* The nodes in the order the recommendation shows they were processed: a
\* node is left over only once every available crew is claimed, so the paired
\* nodes come first.
Processed ==
    [k \in DOMAIN Recommendation.assignments |->
        Recommendation.assignments[k].target_node_id]
      \o Recommendation.unassigned_nodes

\* The recommendation pairs each node with a crew of the highest score among
\* the available crews not claimed for an earlier node.
BestScoringCrews ==
    LET pairs == Recommendation.assignments
        avail == GetAvailableCrews(crews)
    IN  \A k \in DOMAIN pairs :
           LET node == failed_nodes[NodeAt(failed_nodes, pairs[k].target_node_id)]
               crew == crews[CrewAt(crews, pairs[k].crew_id)]
           IN  \A i \in DOMAIN avail :
                  \/ \E l \in 1..(k - 1) : pairs[l].crew_id = avail[i].crew_id
                  \/ ScoreNum(avail[i], node) * ScoreDen(crew, node)
                       <= ScoreNum(crew, node) * ScoreDen(avail[i], node)

\* C21: recommend_dispatch processes the unassigned failed nodes in
\* descending order of load, nodes of equal load in the order of their ids,
\* and gives each node in turn the crew with the highest score among the
\* available crews not claimed earlier in the pass.
C21_GreedyBySeverityThenId ==
    /\ \A k, l \in DOMAIN Processed :
          k < l =>
             LET a == failed_nodes[NodeAt(failed_nodes, Processed[k])]
                 b == failed_nodes[NodeAt(failed_nodes, Processed[l])]
             IN  \/ a.load_mw > b.load_mw
                 \/ a.load_mw = b.load_mw /\ NodeRank(a.id) < NodeRank(b.id)
    /\ BestScoringCrews

\* C22: a recommend_dispatch call leaves the session such that the next
\* recommend_dispatch call returns the same recommendation, assignment ids
\* included, and the next confirmed assignment receives the same id.
C22_RecommendTwiceEqual ==
    [][RecommendDispatch =>
          /\ RecommendOn(assignments', crews', failed_nodes', repaired_nodes',
                         id_counter', storm_mode').assignments
               = Recommendation.assignments
          /\ id_counter' = id_counter]_vars

\* ------------------------------------------------- claims: crews en route

\* The assignments a tick() at the current moment finds en route with a
\* dispatch timestamp.
EnRoute ==
    {i \in DOMAIN assignments :
        /\ assignments[i].status \in {DISPATCHED, EN_ROUTE}
        /\ assignments[i].dispatched_at # None}

\* Whole minutes elapsed since the dispatch of assignment i.
ElapsedMin(i) == (now - assignments[i].dispatched_at[1]) \div 60

\* C23: a tick moves an assignment en route to ON_SITE exactly when the whole
\* minutes elapsed since dispatched_at are at least its ETA; the crew is then
\* ON_SITE at the target's coordinates with ETA 0 and arrived_at is the
\* moment of the tick; otherwise assignment and crew stay EN_ROUTE and the
\* crew's ETA is the assignment's ETA minus the whole minutes elapsed.
C23_ArrivesWhenEtaElapsed ==
    [][TickCore =>
          \A i \in EnRoute :
             LET a == assignments[i]
                 after == assignments'[i]
                 known == a.crew_id \in CrewIdsOf(crews')
                 crew == crews'[CrewAt(crews', a.crew_id)]
             IN  IF ElapsedMin(i) >= a.eta_minutes
                 THEN /\ after = [a EXCEPT !.status = ON_SITE, !.arrived_at = Some(now)]
                      /\ known
                      /\ crew.status = ON_SITE
                      /\ crew.lat = a.target_lat
                      /\ crew.lon = a.target_lon
                      /\ crew.eta_minutes = Some(0)
                 ELSE /\ after = a
                      /\ known
                      /\ crew.status = EN_ROUTE
                      /\ crew.eta_minutes = Some(a.eta_minutes - ElapsedMin(i))]_vars

\* The position of the crew of assignment i when it was dispatched: where
\* load_crews put it, or the target of its previous assignment.
StartOf(i) ==
    LET earlier == {j \in 1..(i - 1) : assignments[j].crew_id = assignments[i].crew_id}
        last == CHOOSE j \in earlier : \A k \in earlier : k <= j
    IN  IF earlier = {}
        THEN [lat |-> RosterCrew(assignments[i].crew_id).lat,
              lon |-> RosterCrew(assignments[i].crew_id).lon]
        ELSE [lat |-> assignments[last].target_lat, lon |-> assignments[last].target_lon]

\* C24: after a tick at elapsed time e < ETA the crew of an assignment en
\* route is at start + (target - start) * e / ETA (to the 4 decimals crew
\* positions are rounded to), start being its position at dispatch, however
\* many ticks were made before.
C24_InterpolatesFromStart ==
    [][TickCore =>
          \A i \in EnRoute :
             LET a == assignments[i]
                 crew == crews'[CrewAt(crews', a.crew_id)]
             IN  ElapsedMin(i) < a.eta_minutes =>
                    /\ crew.lat = Interpolate(StartOf(i).lat, a.target_lat,
                                              now - a.dispatched_at[1], a.eta_minutes)
                    /\ crew.lon = Interpolate(StartOf(i).lon, a.target_lon,
                                              now - a.dispatched_at[1], a.eta_minutes)]_vars

\* ------------------------------------------------ claims: repaired nodes

\* The assignments a step moves from REPAIRING to COMPLETE.
Completing ==
    {i \in DOMAIN assignments :
        /\ i \in DOMAIN assignments'
        /\ assignments[i].status = REPAIRING
        /\ assignments'[i].status = COMPLETE}

\* C25: the repaired-node set is the set of the targets of the COMPLETE
\* assignments; a node enters it exactly when a tick moves a REPAIRING
\* assignment on it to COMPLETE, which takes the minutes elapsed since
\* arrived_at to be at least the repair duration, and nodes leave it by
\* reset only.
C25_RepairedAreCompleted ==
    /\ [](repaired_nodes =
            {assignments[i].target_node_id :
                i \in {j \in DOMAIN assignments : assignments[j].status = COMPLETE}})
    /\ [][/\ repaired_nodes' \ repaired_nodes
               = {assignments[i].target_node_id : i \in Completing} \ repaired_nodes
          /\ Completing # {} => TickCore
          /\ \A i \in Completing :
                /\ assignments[i].arrived_at # None
                /\ now - assignments[i].arrived_at[1] >= assignments[i].repair_minutes * 60
                /\ assignments[i].target_node_id \in repaired_nodes'
          /\ repaired_nodes \ repaired_nodes' # {} => \E storm \in BOOLEAN : Reset(storm)]_vars

\* A repair is completed, by a tick made when its repair duration had
\* elapsed, while another assignment, on another node, is not.
C25_Witness ==
    /\ repaired_nodes # {}
    /\ \E i, j \in DOMAIN assignments :
          /\ assignments[i].status = COMPLETE
          /\ assignments[i].completed_at = Some(now)
          /\ now - assignments[i].arrived_at[1] >= assignments[i].repair_minutes * 60
          /\ assignments[j].status # COMPLETE
          /\ assignments[j].target_node_id \notin repaired_nodes

\* ------------------------------------------- sessions ticked as time passes

\* The wall clock moves on by d seconds and the periodic caller calls tick().
TickLater(d) ==
    LET r == TickFrom(1, assignments, crews, repaired_nodes, now + d)
    IN  /\ now + d <= MaxRepairMin * 60
        /\ now' = now + d
        /\ assignments' = r.as
        /\ crews' = r.cs
        /\ repaired_nodes' = r.rep
        /\ ret' = NoRet
        /\ UNCHANGED <<failed_nodes, id_counter, storm_mode, sched, late, cvars>>

\* A session after dispatch_init in which reset is not called again: the
\* loaders and dispatch_crew are called at any moment (crews are dispatched
\* up to LastDispatchMin, which leaves the clock the time of a drive and of
\* the longest repair), and tick() is called at every moment of the clock
\* and any number of times in between.
RepairNext ==
    \/ \E roster \in Rosters : LoadCrews(roster)
    \/ \E steps \in CascadeResults : LoadFailedNodes(steps, GraphNodes)
    \/ \E cid \in CrewIds, nid \in NodeIds :
          now <= LastDispatchMin * 60 /\ DispatchCrew(cid, nid)
    \/ Tick
    \/ \E d \in ClockSteps : TickLater(d)

\* Time passes, and tick() is driven by a periodic caller: the session does
\* not stay forever at a moment before the end of the clock.
SpecRepair ==
    /\ InitReload
    /\ [][RepairNext]_vars
    /\ WF_vars(\E d \in ClockSteps : TickLater(d))

\* ---------------------------------------------- claims: repairs complete

\* C26: as tick keeps being called while the clock advances and reset is not
\* called, every assignment dispatch_crew creates eventually is COMPLETE with
\* its target in the repaired-node set, whatever load_crews,
\* load_failed_nodes and dispatch_crew calls are made meanwhile.
C26_EveryDispatchIsRepaired ==
    \A i \in 1..MaxId :
        (i \in DOMAIN assignments)
          ~> /\ i \in DOMAIN assignments
             /\ assignments[i].status = COMPLETE
             /\ assignments[i].target_node_id \in repaired_nodes

\* C27: a node in the repaired-node set receives no further assignment:
\* recommend_dispatch does not propose it, and a dispatch_crew call that
\* targets it creates no assignment.
C27_RepairedNeverReassigned ==
    [][/\ \A i \in DOMAIN assignments' \ DOMAIN assignments :
             assignments'[i].target_node_id \notin repaired_nodes
       /\ \A k \in DOMAIN Recommendation.assignments :
             Recommendation.assignments[k].target_node_id \notin repaired_nodes]_vars

\* --------------------------------------------- claims: cascade results

\* The results run_cascade has returned.
Results == {run[p].result[1] : p \in {q \in DOMAIN run : run[q].pc = "done"}}

\* The node ids listed in the new_failures of a step.
Listed(step) == {step.new_failures[i].id : i \in DOMAIN step.new_failures}

\* The number of new_failures entries of the first k steps.
RECURSIVE ListedUpTo(_, _)
ListedUpTo(steps, k) ==
    IF k = 0 THEN 0 ELSE Len(steps[k].new_failures) + ListedUpTo(steps, k - 1)

\* C28: in a result every failed node is listed in the new_failures of
\* exactly one step, once; the nodes listed are those of failed_node_ids;
\* and the total_failed of a step is the number of nodes listed in the
\* steps up to it.
C28_FailuresListedOnce ==
    \A res \in Results :
        /\ \A k \in DOMAIN res.steps :
              \A i, j \in DOMAIN res.steps[k].new_failures :
                 i # j => res.steps[k].new_failures[i].id # res.steps[k].new_failures[j].id
        /\ \A k, l \in DOMAIN res.steps :
              k # l => Listed(res.steps[k]) \cap Listed(res.steps[l]) = {}
        /\ UNION {Listed(res.steps[k]) : k \in DOMAIN res.steps}
              = {res.failed_node_ids[i] : i \in DOMAIN res.failed_node_ids}
        /\ Len(res.failed_node_ids) = res.total_failed_nodes
        /\ \A k \in DOMAIN res.steps :
              res.steps[k].total_failed = ListedUpTo(res.steps, k)

\* A result with weather failures in step -1 and failures in two later steps.
C28_Witness ==
    \E res \in Results :
        /\ Len(res.steps) >= 3
        /\ res.steps[1].step = -1
        /\ res.total_failed_nodes >= 3

\* The invocations in the weather stage or in the cascade loop.
Running == {p \in DOMAIN run : run[p].pc \in {"draw", "cascade"}}

\* C29: no load is added to a failed node.  The target of every reroute of
\* a step is a node not failed at the end of the step; a node failing in the
\* weather stage has load 0 and a node failing in an iteration keeps its
\* load; the load of a failed node does not change; and the
\* total_load_shed_mw of a step is not below that of the step before.
C29_FailedNodesReceiveNothing ==
    [][\A p \in Running :
          LET r == run[p]
              after == run'[p]
              last == after.steps[Len(after.steps)]
          IN  /\ r.failed \subseteq after.failed
              /\ \A n \in r.failed : after.g[n].current_load = r.g[n].current_load
              /\ \A n \in after.failed \ r.failed :
                    after.g[n].current_load
                       = IF r.pc = "draw" THEN 0 ELSE r.g[n].current_load
              /\ Len(after.steps) > Len(r.steps) =>
                    /\ \A i \in DOMAIN last.reroutes :
                          /\ last.reroutes[i].to_id \notin after.failed
                          /\ last.reroutes[i].from_id \in after.failed
                    /\ r.steps # <<>> =>
                          r.steps[Len(r.steps)].total_load_shed_mw
                             <= last.total_load_shed_mw]_vars

\* A step in which two neighbours failed together next to a node that the
\* weather had failed before: none of the three received load.
C29_Witness ==
    \E p \in DOMAIN run :
        /\ Len(run[p].steps) >= 2
        /\ run[p].steps[1].step = -1
        /\ \E k \in DOMAIN run[p].steps :
              LET st == run[p].steps[k]
              IN  /\ st.step >= 0
                  /\ \E i, j \in DOMAIN st.new_failures :
                        /\ i # j
                        /\ \E a \in DOMAIN graph.adj[st.new_failures[i].id] :
                              graph.adj[st.new_failures[i].id][a] = st.new_failures[j].id
                        /\ \E a \in DOMAIN graph.adj[st.new_failures[i].id] :
                              graph.adj[st.new_failures[i].id][a]
                                 \in Listed(run[p].steps[1])

\* The steps of a result that redistribute load: those of the cascade loop.
Redistributions(res) == {k \in DOMAIN res.steps : res.steps[k].step >= 0}

\* The nodes of a finished invocation that have not failed and whose load
\* exceeds 105% of their capacity.
StillOverloaded(p) == Overloaded(run[p].g, run[p].failed, graph.nodes)

\* C30: a result with fewer than 20 redistribution steps is a fixed point:
\* no node outside the failed set has a load above 105% of its capacity, and
\* these are the nodes classified stressed or nominal.
C30_FixedPointUnlessCapped ==
    \A p \in DOMAIN run :
        run[p].pc = "done" =>
           LET res == run[p].result[1]
           IN  /\ \A n \in DOMAIN res.final_node_states :
                     res.final_node_states[n].status \in {"stressed", "nominal"}
                        <=> n \notin run[p].failed
               /\ Cardinality(Redistributions(res)) < MAX_CASCADE_ITERATIONS
                     => StillOverloaded(p) = <<>>

\* A result of fewer than 20 redistribution steps that leaves a node above
\* its capacity and within the threshold.
C30_Witness ==
    \E p \in DOMAIN run :
        /\ run[p].pc = "done"
        /\ Cardinality(Redistributions(run[p].result[1])) \in 1..(MAX_CASCADE_ITERATIONS - 1)
        /\ \E n \in DOMAIN run[p].g :
              /\ n \notin run[p].failed
              /\ run[p].g[n].current_load > run[p].g[n].capacity_mw
              /\ run[p].result[1].final_node_states[n].status = "stressed"
====
